---------------------------- MODULE Spec2Model ----------------------------
(***************************************************************************)
(* Model of the two converters of data/:                                   *)
(*   data/colours/ParseColors.py      legacy palette  -> color.*.xml        *)
(*   data/alphabets/ConvertAlphabet.py legacy alphabet -> alphabet.*.xml    *)
(*                                                                         *)
(* Conventions.  A Python str is a TLA+ string when the program only       *)
(* copies or compares it, and a sequence of one-character strings when the *)
(* program builds it (the output of str.format and of ",".join).  Python's *)
(* None is the string NoneVal, which no input attribute takes as a value.  *)
(* An XML element is a record with its tag; its attribute dictionary is    *)
(* the field attrib, a function whose DOMAIN is the set of attributes      *)
(* present.  The None that find() returns for a missing element is the     *)
(* record NoElement.                                                       *)
(***************************************************************************)
EXTENDS Integers, Sequences, FiniteSets, TLC

VARIABLES
    \* ---- printColor applied to one colour (ParseColors.py:13-17)
    ppc,            \* "idle" | "input" | "printed"
    pcolor,         \* the list handed to printColor
    pstr,           \* what printColor returned
    \* ---- the script ParseColors.py
    cpc,            \* "idle" | "default" | "loop" | "done" | "crashed"
    files,          \* what glob('./colour*.xml') lists, in its order
    defaultPos,     \* where colour.xml stands in that list
    fileIdx,        \* how many entries of the list the loop has consumed
    defaultNamedColors, \* the module-level variable of line 111
    written,        \* output file name -> the document last written to it
    lastCall,       \* the last call of ExtractColors: its arguments and outcome
    \* ---- the script ConvertAlphabet.py on one <alphabet>
    apc,            \* "idle" | "start" | "comments" | "groups" | "paragraph" | "write" | "done"
    alphabet,       \* the <alphabet> element being converted
    output,         \* the output element under construction
    groupIdx,       \* how many top-level groups the loop of line 114 has consumed
    explicitInvisible,          \* the variable of lines 113-116
    group,          \* the loop variable of line 114, read by line 57
    AlphabetUsesCharColors,     \* the globals of lines 4-5
    AlphabetUsesGroupColors,
    lastParse,      \* the last top-level call of parseRecursive and its outcome
    alphabetFile,   \* the file written: [path, tree]
    \* ---- parseRecursive applied to one legacy tree
    fpc,            \* "idle" | "input" | "returned"
    felement,       \* the element handed to parseRecursive
    fflag,          \* its explicitInvisible argument
    fresult         \* what the call appended, returned and set

NoneVal == "<None>"
NoElement == [tag |-> NoneVal]

(***************************************************************************)
(* getAttrib (ParseColors.py:4-6, ConvertAlphabet.py:29-31)                *)
(***************************************************************************)
getAttrib(Element, attrib, alt) ==
    IF Element.tag = NoneVal THEN alt
    ELSE IF attrib \in DOMAIN Element.attrib THEN Element.attrib[attrib] ELSE alt

(***************************************************************************)
(* int(str): decimal digits, most significant first.                       *)
(***************************************************************************)
DigitVal(c) ==
    CASE c = "0" -> 0 [] c = "1" -> 1 [] c = "2" -> 2 [] c = "3" -> 3
      [] c = "4" -> 4 [] c = "5" -> 5 [] c = "6" -> 6 [] c = "7" -> 7
      [] c = "8" -> 8 [] c = "9" -> 9

RECURSIVE int(_)
int(s) ==
    IF Len(s) = 1 THEN DigitVal(s[1])
    ELSE int(SubSeq(s, 1, Len(s) - 1)) * 10 + DigitVal(s[Len(s)])

\* str(n) for n >= 0: the inverse used to write the attribute values of the inputs
DigitChars == <<"0", "1", "2", "3", "4", "5", "6", "7", "8", "9">>

RECURSIVE str(_)
str(n) ==
    IF n < 10 THEN <<DigitChars[n + 1]>>
    ELSE str(n \div 10) \o <<DigitChars[(n % 10) + 1]>>

(***************************************************************************)
(* parseColor (ParseColors.py:8-9): channels default to 0, 0, 0, 255.      *)
(***************************************************************************)
parseColor(element) ==
    << int(getAttrib(element, "r", <<"0">>)),
       int(getAttrib(element, "g", <<"0">>)),
       int(getAttrib(element, "b", <<"0">>)),
       int(getAttrib(element, "a", <<"2", "5", "5">>)) >>

(***************************************************************************)
(* '{:02x}'.format(n): lowercase hexadecimal, zero-padded to width 2.      *)
(***************************************************************************)
HexChars == <<"0", "1", "2", "3", "4", "5", "6", "7",
              "8", "9", "a", "b", "c", "d", "e", "f">>

RECURSIVE hex(_)
hex(n) ==
    IF n < 16 THEN <<HexChars[n + 1]>>
    ELSE hex(n \div 16) \o <<HexChars[(n % 16) + 1]>>

\* a formatting bug: '{:x}', no padding
Format02xNoPad(n) == hex(n)

Format02x(n) ==
    IF Len(hex(n)) < 2 THEN <<"0">> \o hex(n) ELSE hex(n)

(***************************************************************************)
(* printColor (ParseColors.py:13-17).  str.format ignores a fourth         *)
(* argument the format string does not mention; a list of another length   *)
(* falls off the end of the function, which returns None.                  *)
(***************************************************************************)
printColor(color) ==
    IF Len(color) = 3 \/ (Len(color) = 4 /\ color[4] = 255)
    THEN <<"#">> \o Format02x(color[1]) \o Format02x(color[2]) \o Format02x(color[3])
    ELSE IF Len(color) = 4
    THEN <<"#">> \o Format02x(color[1]) \o Format02x(color[2]) \o Format02x(color[3])
               \o Format02x(color[4])
    ELSE <<NoneVal>>

(***************************************************************************)
(* getColorSequence (ParseColors.py:19-23): ",".join of the hex strings.   *)
(* colors is the list of <colour> elements; Python's colors[i] is the      *)
(* (i+1)-th element of the sequence.                                       *)
(***************************************************************************)
RECURSIVE join(_)
join(result) ==
    IF Len(result) = 0 THEN <<>>
    ELSE IF Len(result) = 1 THEN result[1]
    ELSE result[1] \o <<",">> \o join(Tail(result))

getColorSequence(colors, range) ==
    join([k \in 1..Len(range) |-> printColor(parseColor(colors[range[k] + 1]))])

(***************************************************************************)
(* addGroup (ParseColors.py:25-32): the groupColorInfo element appended to *)
(* parent.                                                                 *)
(***************************************************************************)
addGroup(colorsRange, name, groupColor, generateAltColors, colors) ==
    [tag |-> "groupColorInfo",
     attrib |->
        ("name" :> name)
        @@ (IF groupColor > 0
            THEN ("groupColor" :> printColor(parseColor(colors[groupColor + 1])))
                 @@ ("groupOutlineColor" :> printColor(parseColor(colors[3 + 1])))
            ELSE <<>>)
        @@ ("nodeColorSequence" :> getColorSequence(colors, colorsRange))
        @@ (IF generateAltColors
            THEN ("altNodeColorSequence" :>
                    getColorSequence(colors,
                        [k \in 1..Len(colorsRange) |-> colorsRange[k] + 130]))
            ELSE <<>>)]

(***************************************************************************)
(* NamedColors (ParseColors.py:34-60)                                      *)
(***************************************************************************)
NamedColors == <<
    <<0, "backgroundColor">>,
    <<1, "inputLineColor">>,
    <<2, "inputPositionColor">>,
    <<5, "crosshairColor">>,
    <<7, "rootNodeColor">>,
    <<3, "defaultOutlineColor">>,
    <<4, "defaultLabelColor">>,
    <<1, "selectionHighlightColor">>,
    <<2, "selectionInactiveColor">>,
    <<2, "circleOutlineColor">>,
    <<242, "circleStoppedColor">>,
    <<241, "circleWaitingColor">>,
    <<240, "circleStartedColor">>,
    <<119, "firstStartBoxColor">>,
    <<120, "secondStartBoxColor">>,
    <<240, "twoPushDynamicActiveMarkerColor">>,
    <<61, "twoPushDynamicInactiveMarkerColor">>,
    <<2, "oneButtonDynamicOuterGuidesColor">>,
    <<62, "twoPushDynamicOuterGuidesColor">>,
    <<0, "infoTextColor">>,
    <<5, "infoTextBackgroundColor">>,
    <<111, "warningTextColor">>,
    <<5, "warningTextBackgroundColor">>,
    <<135, "gameGuideColor">>,
    <<9, "conversionNodeColor">> >>

(***************************************************************************)
(* cr and knownGroups (ParseColors.py:62-77)                               *)
(***************************************************************************)
cr(min, max) == [k \in 1..(max + 1 - min) |-> min + k - 1]

knownGroups == <<
    [name |-> "lowercase", ranges |-> cr(10, 39), alt |-> TRUE, groupColor |-> -1],
    [name |-> "lowercaseBackground", ranges |-> cr(10, 39), alt |-> TRUE, groupColor |-> 99],
    [name |-> "uppercase", ranges |-> cr(10, 38), alt |-> TRUE, groupColor |-> 111],
    [name |-> "punctuation", ranges |-> <<105, 103, 104, 100, 104>>, alt |-> TRUE,
     groupColor |-> 112],
    [name |-> "limitedPunctuation", ranges |-> <<99, 109, 105, 103, 104, 100, 104>>,
     alt |-> TRUE, groupColor |-> 112],
    [name |-> "punctuationLong",
     ranges |-> <<90, 91, 92, 93, 94, 95, 96, 97, 98, 99, 95, 96, 97, 98, 105, 106, 107,
                  108, 109, 105, 106, 107, 108, 109, 106, 107, 108, 109, 105, 9, 100,
                  101, 102, 103, 104, 100, 104>>,
     alt |-> TRUE, groupColor |-> 112],
    [name |-> "numbers", ranges |-> cr(90, 94), alt |-> TRUE, groupColor |-> 113],
    [name |-> "accents", ranges |-> <<72, 82>>, alt |-> TRUE, groupColor |-> 112],
    [name |-> "space", ranges |-> <<9>>, alt |-> FALSE, groupColor |-> -1],
    [name |-> "paragraph", ranges |-> <<9>>, alt |-> FALSE, groupColor |-> -1],
    [name |-> "paragraphSpace", ranges |-> <<9, 9>>, alt |-> FALSE, groupColor |-> -1] >>

(***************************************************************************)
(* cleanString (ParseColors.py:11): lower(), " " -> ".", then only ASCII    *)
(* letters and digits and "." are kept.                                    *)
(***************************************************************************)
UpperChars == <<"A", "B", "C", "D", "E", "F", "G", "H", "I", "J", "K", "L", "M",
                "N", "O", "P", "Q", "R", "S", "T", "U", "V", "W", "X", "Y", "Z">>
LowerChars == <<"a", "b", "c", "d", "e", "f", "g", "h", "i", "j", "k", "l", "m",
                "n", "o", "p", "q", "r", "s", "t", "u", "v", "w", "x", "y", "z">>

Range(f) == {f[k] : k \in DOMAIN f}

lower(c) ==
    IF c \in Range(UpperChars)
    THEN LowerChars[CHOOSE k \in DOMAIN UpperChars : UpperChars[k] = c]
    ELSE c

isAsciiAlnum(c) == c \in Range(UpperChars) \cup Range(LowerChars) \cup Range(DigitChars)

cleanString(s) ==
    LET lowered == [k \in 1..Len(s) |-> IF lower(s[k]) = " " THEN "." ELSE lower(s[k])]
    IN  SelectSeq(lowered, LAMBDA x : isAsciiAlnum(x) \/ x = ".")

(***************************************************************************)
(* The names bound at module level when ExtractColors runs                 *)
(* (ParseColors.py:1-80, 111-112).  A name read inside the function that   *)
(* is neither local nor in this set raises NameError.                      *)
(***************************************************************************)
ModuleNames == {"glob", "ET", "getAttrib", "parseColor", "cleanString", "printColor",
                "getColorSequence", "addGroup", "NamedColors", "cr", "knownGroups",
                "ExtractColors", "defaultNamedColors", "filename"}

Default == <<"D", "e", "f", "a", "u", "l", "t">>

(***************************************************************************)
(* ExtractColors (ParseColors.py:80-109).  input is the <palette> element  *)
(* of the file: [attrib |-> [name |-> ...], colours |-> the <colour> list].*)
(* The result is [raised, doc, path, ret]: the exception that ended the    *)
(* call (NoneVal when it returned), the document written, the file it was  *)
(* written to and the returned dictionary.                                 *)
(***************************************************************************)
\* the named colours loop, lines 93-97, from entry k on: [attrib, extracted]
RECURSIVE NamedLoop(_, _, _, _)
NamedLoop(k, colors, excludeColors, acc) ==
    IF k > Len(NamedColors) THEN acc
    ELSE LET colorIndex == NamedColors[k][1]
             colorName  == NamedColors[k][2]
             color      == printColor(parseColor(colors[colorIndex + 1]))
         IN  IF colorName \notin DOMAIN excludeColors \/ excludeColors[colorName] /= color
             THEN NamedLoop(k + 1, colors, excludeColors,
                    [attrib |-> (colorName :> color) @@ acc.attrib,
                     extracted |-> (colorName :> color) @@ acc.extracted])
             ELSE NamedLoop(k + 1, colors, excludeColors, acc)

ExtractColors(input, excludeColors) ==
    LET paletteName == input.attrib["name"]
        output0 == ("name" :> paletteName)
    IN  IF paletteName /= Default /\ "parentName" \notin ModuleNames
        THEN \* line 90: the subscript is the unbound name parentName
             [raised |-> "NameError", doc |-> NoneVal, path |-> NoneVal, ret |-> NoneVal]
        ELSE
        LET output1 == IF paletteName /= Default
                       THEN ("parentName" :> Default) @@ output0
                       ELSE output0
            colors == input.colours
            named  == NamedLoop(1, colors, excludeColors,
                                [attrib |-> output1, extracted |-> <<>>])
            groups == [k \in 1..Len(knownGroups) |->
                         addGroup(knownGroups[k].ranges, knownGroups[k].name,
                                  knownGroups[k].groupColor, knownGroups[k].alt, colors)]
        IN  [raised |-> NoneVal,
             doc |-> [tag |-> "colors", attrib |-> named.attrib, children |-> groups],
             path |-> cleanString(paletteName),
             ret |-> named.extracted]

(***************************************************************************)
(*                      data/alphabets/ConvertAlphabet.py                  *)
(*                                                                         *)
(* Every str the converter reads is a sequence of one-character strings;   *)
(* None in place of a str is NoneStr and the int -1 that getCharData uses  *)
(* as the default of b is MinusOne: neither is a sequence of characters,   *)
(* so neither equals any attribute value, as in Python.                    *)
(* An element is [tag, attrib, text, children]; children holds comments    *)
(* too, as findall("*") does on a tree parsed with insert_comments=True.   *)
(* The tag of a comment is the function ET.Comment, written CommentTag.    *)
(***************************************************************************)
NoneStr == <<NoneVal>>
MinusOne == <<"<int -1>">>
CommentTag == "<function Comment>"
NoData == <<>>

yes == <<"y", "e", "s">>
no  == <<"n", "o">>

Element(tag, attrib, children) ==
    [tag |-> tag, attrib |-> attrib, text |-> <<>>, children |-> children]

\* ET.Comment(text)
Comment(text) == [tag |-> CommentTag, attrib |-> <<>>, text |-> text, children |-> <<>>]

\* ord() on the characters the inputs use
ord(c) ==
    IF c \in Range(LowerChars)
    THEN 96 + (CHOOSE k \in DOMAIN LowerChars : LowerChars[k] = c)
    ELSE IF c \in Range(UpperChars)
    THEN 64 + (CHOOSE k \in DOMAIN UpperChars : UpperChars[k] = c)
    ELSE IF c = " " THEN 32 ELSE 10

\* name.lower()
lowerStr(s) == [k \in 1..Len(s) |-> lower(s[k])]

(***************************************************************************)
(* getCharData (ConvertAlphabet.py:33-40)                                  *)
(***************************************************************************)
getCharData(tag) ==
    IF tag.tag = NoneVal THEN NoData
    ELSE << getAttrib(tag, "d", NoneStr),
            getAttrib(tag, "t", NoneStr),
            getAttrib(tag, "b", MinusOne),
            getAttrib(tag, "note", <<>>) >>

(***************************************************************************)
(* AddCharData (ConvertAlphabet.py:9-21): the node appended to Parent and  *)
(* whether AlphabetUsesCharColors is set.  data[0..3] are data[1..4] here. *)
(***************************************************************************)
AddCharData(data) ==
    LET inputAction ==
            Element("textCharAction",
                    IF data[2] /= NoneStr /\ data[1] /= data[2]
                    THEN ("unicode" :> str(ord(data[2][1])))
                    ELSE <<>>,
                    <<>>)
        newChar ==
            Element("node", ("label" :> data[1]),
                    (IF data[3] /= MinusOne
                     THEN <<Comment(<<"Old Char Color: ", data[3]>>)>> ELSE <<>>)
                    \o (IF data[4] /= <<>>
                        THEN <<Comment(<<"Note: ", data[4]>>)>> ELSE <<>>)
                    \o <<inputAction>>)
    IN  [node |-> newChar, usesCharColors |-> data[3] /= MinusOne]

(***************************************************************************)
(* conversionMode2str (ConvertAlphabet.py:43-45)                           *)
(***************************************************************************)
LUT == << <<"n", "o", "n", "e">>,
          <<"n", "o", "n", "e">>,
          <<"m", "a", "n", "d", "a", "r", "i", "n">>,
          <<"r", "o", "u", "t", "i", "n", "g", "C", "o", "n", "t", "e", "x", "t",
            "I", "n", "s", "e", "n", "s", "i", "t", "v", "e">>,
          <<"r", "o", "u", "t", "i", "n", "g", "C", "o", "n", "t", "e", "x", "t",
            "S", "e", "n", "s", "i", "t", "i", "v", "e">> >>

conversionMode2str(convMode) == LUT[int(convMode) + 1]

(***************************************************************************)
(* parseRecursive (ConvertAlphabet.py:47-84).                              *)
(* The result is [out, ret, emitted, usesCharColors, usesGroupColors]: the *)
(* elements appended to outputElement, the value returned, whether the     *)
(* call itself created a group (line 61) and whether it, or a call below   *)
(* it, set each of the two global flags.                                   *)
(*                                                                         *)
(* Line 57 compares children[0].tag with group, which is not the string    *)
(* "group" but the module-level loop variable of line 114, an Element:     *)
(* str == Element is False for every tag.                                  *)
(***************************************************************************)
StrEqualsElement(s, e) == FALSE

\* the children loop of lines 72-73 appends each child's output in turn
RECURSIVE FlattenSkipsFirst(_)
FlattenSkipsFirst(seqs) ==
    \* a loop bug: the children after the first overwrite the first one's output
    IF Len(seqs) <= 1 THEN (IF Len(seqs) = 0 THEN <<>> ELSE Head(seqs))
    ELSE FlattenSkipsFirst(Tail(seqs))

RECURSIVE Flatten(_)
Flatten(seqs) == IF Len(seqs) = 0 THEN <<>> ELSE Head(seqs) \o Flatten(Tail(seqs))

\* lines 53-54: the group's visible attribute, overridden by the caller's flag
visibleIgnoringOverride(element, explicitInvisibleArg) ==
    \* a bug: line 54 left out
    getAttrib(element, "visible", yes)

visibleOf(element, explicitInvisibleArg) ==
    IF explicitInvisibleArg THEN no ELSE getAttrib(element, "visible", yes)

RECURSIVE parseRecursive(_, _, _)
parseRecursive(element, explicitInvisibleArg, groupVar) ==
    IF element.tag = "group"
    THEN
        LET children == element.children
            visible  == visibleOf(element, explicitInvisibleArg)
            name     == getAttrib(element, "name", NoneStr)
            label    == getAttrib(element, "label", NoneStr)
        IN  IF /\ Len(children) = 1
               /\ (StrEqualsElement(children[1].tag, groupVar) \/ children[1].tag = "s")
               /\ visible = no /\ name = NoneStr /\ label = NoneStr
            THEN [parseRecursive(children[1], FALSE, groupVar) EXCEPT !.emitted = FALSE]
            ELSE
            LET color    == getAttrib(element, "b", NoneStr)
                coloured == visible /= no /\ color /= NoneStr
                kids     == [k \in 1..Len(children) |->
                                parseRecursive(children[k], FALSE, groupVar)]
                ChildUsesColors == \E k \in 1..Len(children) : kids[k].ret
                attrib ==
                    (IF (coloured \/ ChildUsesColors) /\ name /= NoneStr
                     THEN ("colorInfoName" :> lowerStr(name)) ELSE <<>>)
                    @@ (IF label /= NoneStr /\ label /= <<>>
                        THEN ("label" :> label) ELSE <<>>)
                    @@ (IF name /= NoneStr THEN ("name" :> name) ELSE <<>>)
                newGroup ==
                    Element("group", attrib,
                            (IF coloured
                             THEN <<Comment(<<"Old Group Color: ", color>>)>> ELSE <<>>)
                            \o Flatten([k \in 1..Len(children) |-> kids[k].out]))
            IN  \* the group branch ends at line 74 and falls through to line 84
                [out |-> <<newGroup>>,
                 ret |-> FALSE,
                 emitted |-> TRUE,
                 usesCharColors  |-> \E k \in 1..Len(children) : kids[k].usesCharColors,
                 usesGroupColors |-> coloured
                                     \/ \E k \in 1..Len(children) : kids[k].usesGroupColors]
    ELSE IF element.tag = "s"
    THEN LET data == getCharData(element)
             added == AddCharData(data)
         IN  [out |-> <<added.node>>,
              ret |-> data[3] /= MinusOne,
              emitted |-> FALSE,
              usesCharColors |-> added.usesCharColors,
              usesGroupColors |-> FALSE]
    ELSE IF element.tag = CommentTag
    THEN [out |-> <<element>>, ret |-> FALSE, emitted |-> FALSE,
          usesCharColors |-> FALSE, usesGroupColors |-> FALSE]
    ELSE [out |-> <<>>, ret |-> FALSE, emitted |-> FALSE,
          usesCharColors |-> FALSE, usesGroupColors |-> FALSE]

(***************************************************************************)
(* Element.find and Element.findall for a tag; findall("*") is children.   *)
(***************************************************************************)
findall(element, tag) == SelectSeq(element.children, LAMBDA c : c.tag = tag)

find(element, tag) ==
    IF Len(findall(element, tag)) = 0 THEN NoElement ELSE findall(element, tag)[1]

(***************************************************************************)
(* cleanString of ConvertAlphabet.py:7 and the output path of line 141:    *)
(* name.lower(), " " -> ".", "," removed, cleanString, ".." -> ".".        *)
(***************************************************************************)
cleanStringAlphabet(s) == SelectSeq(s, LAMBDA x : isAsciiAlnum(x) \/ x = ".")

RECURSIVE replaceDotDot(_)
replaceDotDot(s) ==
    IF Len(s) < 2 THEN s
    ELSE IF s[1] = "." /\ s[2] = "." THEN <<".">> \o replaceDotDot(SubSeq(s, 3, Len(s)))
    ELSE <<s[1]>> \o replaceDotDot(Tail(s))

alphnamePath(name) ==
    LET dotted == [k \in 1..Len(name) |-> IF lower(name[k]) = " " THEN "." ELSE lower(name[k])]
    IN  replaceDotDot(cleanStringAlphabet(SelectSeq(dotted, LAMBDA x : x /= ",")))

(***************************************************************************)
(* The output element of lines 100-107.                                    *)
(***************************************************************************)
NewOutput(alphabetElement) ==
    LET name == getAttrib(alphabetElement, "name", NoneStr)
        orientation == getAttrib(find(alphabetElement, "orientation"), "type", NoneStr)
        conversionMode == getAttrib(find(alphabetElement, "conversionmode"), "id", NoneStr)
        trainingfile == find(alphabetElement, "train").text
        colorsName == IF find(alphabetElement, "palette").tag /= NoneVal
                      THEN find(alphabetElement, "palette").text ELSE Default
    IN  Element("alphabet",
                (IF conversionMode /= NoneStr
                 THEN ("conversionMode" :> conversionMode2str(conversionMode)) ELSE <<>>)
                @@ ("name" :> name) @@ ("orientation" :> orientation)
                @@ ("trainingFilename" :> trainingfile) @@ ("colorsName" :> colorsName),
                <<>>)

(***************************************************************************)
(* The paragraph and space groups of lines 118-136: the groups appended to *)
(* output and whether AddCharData set AlphabetUsesCharColors.  The names   *)
(* are literals the program only copies: plain strings.                    *)
(***************************************************************************)
ParagraphSpace(paragraph, space) ==
    IF paragraph /= NoData /\ space /= NoData
    THEN [out |-> <<Element("group",
                       ("name" :> "paragraphSpace")
                       @@ ("colorInfoName" :> "paragraphSpace"),
                       <<AddCharData(paragraph).node, AddCharData(space).node>>)>>,
          usesCharColors |-> AddCharData(paragraph).usesCharColors
                             \/ AddCharData(space).usesCharColors]
    ELSE IF paragraph /= NoData
    THEN [out |-> <<Element("group",
                       ("name" :> "paragraph")
                       @@ ("colorInfoName" :> "saragraph"),
                       <<AddCharData(paragraph).node>>)>>,
          usesCharColors |-> AddCharData(paragraph).usesCharColors]
    ELSE IF space /= NoData
    THEN [out |-> <<Element("group",
                       ("name" :> "space")
                       @@ ("colorInfoName" :> "space"),
                       <<AddCharData(space).node>>)>>,
          usesCharColors |-> AddCharData(space).usesCharColors]
    ELSE [out |-> <<>>, usesCharColors |-> FALSE]

(***************************************************************************)
(* Inputs of ParseColors.py: the palette files.  A file is described by    *)
(* the palette's name and the set alt of slots whose colour departs from   *)
(* the base colours; PaletteOf gives the <palette> element read from it.   *)
(* Slots 1, 5, 9, ... carry an alpha below 255, slot 0 leaves r out and    *)
(* most slots leave a out, so that parseColor's defaults are used.         *)
(***************************************************************************)
MaxFiles == 2       \* palette files beside colour.xml

PaletteNames == {Default, <<"N", "i", "g", "h", "t", " ", "1">>}
FreeSlots == {0, 5}

ColourElement(i, changed) ==
    [tag |-> "colour",
     attrib |->
        IF changed
        THEN ("r" :> str(255)) @@ ("g" :> str(255)) @@ ("b" :> str(i % 7))
        ELSE (IF i = 0 THEN <<>> ELSE ("r" :> str(i)))
             @@ ("g" :> str((i * 7) % 256))
             @@ ("b" :> str(255 - i))
             @@ (IF i % 4 = 1 THEN ("a" :> str(128)) ELSE <<>>)]

PaletteOf(file) ==
    [tag |-> "palette",
     attrib |-> ("name" :> file.name),
     colours |-> [k \in 1..243 |-> ColourElement(k - 1, (k - 1) \in file.alt)]]

FileKinds == [name : PaletteNames, alt : SUBSET FreeSlots]

FileLists == UNION {[1..n -> FileKinds] : n \in 1..(MaxFiles + 1)}

(***************************************************************************)
(* Inputs of printColor: lists of 3 and of 4 channels.  One channel runs   *)
(* over all of 0..255 while the others stay at the ends of the range.      *)
(***************************************************************************)
ChannelEnds == {0, 255}

ColorLists ==
    UNION {{[base EXCEPT ![p] = v] : v \in 0..255, p \in 1..n,
                                      base \in [1..n -> ChannelEnds]} : n \in {3, 4}}

(***************************************************************************)
(* Inputs of ConvertAlphabet.py: legacy elements.                          *)
(***************************************************************************)
MaxNodes == 3       \* nodes of a legacy tree handed to parseRecursive
MaxGroups == 2      \* top-level groups of an alphabet

\* the attribute dictionaries with at most one value for each optional attribute
OptAttr(attrib, value) == {<<>>, (attrib :> value)}

sPlain    == Element("s", ("d" :> <<"a">>), <<>>)
sColoured == Element("s", ("d" :> <<"B">>) @@ ("t" :> <<"b">>) @@ ("b" :> <<"3">>)
                          @@ ("note" :> <<"x">>), <<>>)
legacyComment == Comment(<<"k", "e", "e", "p">>)

Leaves == {sPlain, sColoured, legacyComment}

Vowels == <<"V", "o", "w", "e", "l", "s">>

GroupAttribs ==
    {n @@ v @@ b : n \in OptAttr("name", Vowels), v \in OptAttr("visible", no),
                   b \in OptAttr("b", <<"5">>)}

\* the root may carry a label as well, empty or not
RootAttribs ==
    {l @@ a : l \in OptAttr("label", <<"V">>) \cup OptAttr("label", <<>>),
              a \in GroupAttribs}

\* the sequences of trees with m nodes in all, over trees whose groups take
\* their attributes from GroupAttribs
RECURSIVE ForestsOfSize(_)
ForestsOfSize(m) ==
    IF m = 0 THEN {<<>>}
    ELSE UNION {
            {<<t>> \o f :
                t \in (IF k = 1 THEN Leaves ELSE {})
                      \cup {Element("group", a, kids) :
                                a \in GroupAttribs, kids \in ForestsOfSize(k - 1)},
                f \in ForestsOfSize(m - k)}
            : k \in 1..m}

LegacyTrees ==
    Leaves \cup {Element("group", a, kids) :
                    a \in RootAttribs,
                    kids \in UNION {ForestsOfSize(m) : m \in 0..(MaxNodes - 1)}}

\* the top-level groups of the alphabets: every attribute combination on a group
\* of two characters, and two wrappers around a single child
TopGroups ==
    {Element("group", a, <<sPlain, sColoured>>) : a \in GroupAttribs}
    \cup {Element("group", <<>>, <<sColoured>>),
          Element("group", <<>>, <<Element("group", ("name" :> Vowels), <<sPlain>>)>>)}

ConversionModes ==
    {<<>>, <<Element("conversionmode", <<>>, <<>>)>>}
    \cup {<<Element("conversionmode", ("id" :> str(k)), <<>>)>> : k \in 0..(Len(LUT) - 1)}

Paragraphs == {<<>>, <<Element("paragraph", ("d" :> <<"P">>) @@ ("b" :> <<"9">>), <<>>)>>}
Spaces     == {<<>>, <<Element("space", ("d" :> <<"_">>) @@ ("t" :> <<" ">>), <<>>)>>}

GroupLists == UNION {[1..n -> TopGroups] : n \in 0..MaxGroups}

Alphabets ==
    {Element("alphabet", ("name" :> <<"E", "n", ",", " ", "U", "S">>),
        <<Element("orientation", ("type" :> <<"L", "R">>), <<>>)>>
        \o c
        \o <<[Element("train", <<>>, <<>>) EXCEPT !.text = <<"t", ".", "t", "x", "t">>]>>
        \o <<legacyComment>>
        \o g \o p \o s)
     : c \in ConversionModes, g \in GroupLists, p \in Paragraphs, s \in Spaces}

cvars == <<cpc, files, defaultPos, fileIdx, defaultNamedColors, written, lastCall>>
pvars == <<ppc, pcolor, pstr>>
avars == <<apc, alphabet, output, groupIdx, explicitInvisible, group,
           AlphabetUsesCharColors, AlphabetUsesGroupColors, lastParse, alphabetFile>>
fvars == <<fpc, felement, fflag, fresult>>
vars == <<ppc, pcolor, pstr,
          cpc, files, defaultPos, fileIdx, defaultNamedColors, written, lastCall,
          apc, alphabet, output, groupIdx, explicitInvisible, group,
          AlphabetUsesCharColors, AlphabetUsesGroupColors, lastParse, alphabetFile,
          fpc, felement, fflag, fresult>>

NoCall == [idx |-> 0, raised |-> NoneVal, attrib |-> <<>>, ret |-> <<>>,
           excludeColors |-> <<>>]

ColoursIdle ==
    /\ cpc = "idle" /\ files = <<>> /\ defaultPos = 0 /\ fileIdx = 0
    /\ defaultNamedColors = <<>> /\ written = <<>> /\ lastCall = NoCall

PrintIdle == ppc = "idle" /\ pcolor = <<>> /\ pstr = <<>>

NoParse == [idx |-> 0, explicitInvisible |-> FALSE, out |-> <<>>, ret |-> FALSE,
            emitted |-> FALSE]
NoResult == [out |-> <<>>, ret |-> FALSE, emitted |-> FALSE, usesCharColors |-> FALSE,
             usesGroupColors |-> FALSE]

AlphabetIdle ==
    /\ apc = "idle" /\ alphabet = NoElement /\ output = NoElement /\ groupIdx = 0
    /\ explicitInvisible = FALSE /\ group = NoElement
    /\ AlphabetUsesCharColors = FALSE /\ AlphabetUsesGroupColors = FALSE
    /\ lastParse = NoParse /\ alphabetFile = <<>>

ParseIdle == fpc = "idle" /\ felement = NoElement /\ fflag = FALSE /\ fresult = NoResult

(***************************************************************************)
(* printColor as a step: one call on one list.                             *)
(***************************************************************************)
PrintInit ==
    /\ ppc = "input" /\ pcolor \in ColorLists /\ pstr = <<>>
    /\ ColoursIdle /\ AlphabetIdle /\ ParseIdle

CallPrintColor ==
    /\ ppc = "input"
    /\ pstr' = printColor(pcolor)
    /\ ppc' = "printed"
    /\ UNCHANGED <<pcolor, cvars, avars, fvars>>

PrintNext == CallPrintColor

SpecPrint == PrintInit /\ [][PrintNext]_vars

(***************************************************************************)
(* The script ParseColors.py, lines 111-115.                               *)
(***************************************************************************)
ColoursInit ==
    /\ cpc = "default"
    /\ files \in FileLists
    /\ defaultPos \in 1..Len(files)
    /\ files[defaultPos].name = Default     \* colour.xml holds the palette "Default"
    /\ fileIdx = 0
    /\ defaultNamedColors = <<>>
    /\ written = <<>>
    /\ lastCall = NoCall
    /\ PrintIdle /\ AlphabetIdle /\ ParseIdle

\* the record kept of one call ExtractColors(files[i], exclude) with outcome r:
\* the exception raised, the attributes of the document written (none when it
\* raised) and the dictionary returned
CallRecord(i, exclude, r) ==
    [idx |-> i, raised |-> r.raised, excludeColors |-> exclude,
     attrib |-> IF r.raised = NoneVal THEN r.doc.attrib ELSE <<>>,
     ret |-> IF r.raised = NoneVal THEN r.ret ELSE <<>>]

\* line 111: defaultNamedColors = ExtractColors("colour.xml", [])
ExtractDefault ==
    /\ cpc = "default"
    /\ LET r == ExtractColors(PaletteOf(files[defaultPos]), <<>>)
       IN  /\ lastCall' = CallRecord(defaultPos, <<>>, r)
           /\ IF r.raised = NoneVal
              THEN /\ cpc' = "loop"
                   /\ defaultNamedColors' = r.ret
                   /\ written' = (r.path :> r.doc) @@ written
              ELSE /\ cpc' = "crashed"
                   /\ UNCHANGED <<defaultNamedColors, written>>
    /\ UNCHANGED <<files, defaultPos, fileIdx, pvars, avars, fvars>>

\* line 113: colour.xml itself is skipped
LoopSkip ==
    /\ cpc = "loop" /\ fileIdx < Len(files)
    /\ fileIdx + 1 = defaultPos
    /\ fileIdx' = fileIdx + 1
    /\ UNCHANGED <<cpc, files, defaultPos, defaultNamedColors, written, lastCall, pvars, avars, fvars>>

\* line 115: ExtractColors(filename, defaultNamedColors)
LoopExtract ==
    /\ cpc = "loop" /\ fileIdx < Len(files)
    /\ fileIdx + 1 /= defaultPos
    /\ LET r == ExtractColors(PaletteOf(files[fileIdx + 1]), defaultNamedColors)
       IN  /\ lastCall' = CallRecord(fileIdx + 1, defaultNamedColors, r)
           /\ IF r.raised = NoneVal
              THEN /\ cpc' = "loop"
                   /\ fileIdx' = fileIdx + 1
                   /\ written' = (r.path :> r.doc) @@ written
              ELSE /\ cpc' = "crashed"
                   /\ UNCHANGED <<fileIdx, written>>
    /\ UNCHANGED <<files, defaultPos, defaultNamedColors, pvars, avars, fvars>>

LoopEnd ==
    /\ cpc = "loop" /\ fileIdx = Len(files)
    /\ cpc' = "done"
    /\ UNCHANGED <<files, defaultPos, fileIdx, defaultNamedColors, written, lastCall, pvars, avars, fvars>>

ColoursNext == ExtractDefault \/ LoopSkip \/ LoopExtract \/ LoopEnd

SpecColours == ColoursInit /\ [][ColoursNext]_vars

(***************************************************************************)
(* parseRecursive as a step: one call on one legacy tree.                  *)
(***************************************************************************)
ParseInit ==
    /\ fpc = "input" /\ felement \in LegacyTrees /\ fflag \in BOOLEAN
    /\ fresult = NoResult
    /\ PrintIdle /\ ColoursIdle /\ AlphabetIdle

CallParseRecursive ==
    /\ fpc = "input"
    /\ fresult' = parseRecursive(felement, fflag, felement)
    /\ fpc' = "returned"
    /\ UNCHANGED <<felement, fflag, pvars, cvars, avars>>

ParseNext == CallParseRecursive

SpecParse == ParseInit /\ [][ParseNext]_vars

(***************************************************************************)
(* The body of the alphabet loop, ConvertAlphabet.py:87-146.               *)
(***************************************************************************)
AlphabetInit ==
    /\ apc = "start" /\ alphabet \in Alphabets
    /\ output = NoElement /\ groupIdx = 0
    /\ explicitInvisible = FALSE /\ group = NoElement
    /\ AlphabetUsesCharColors = FALSE /\ AlphabetUsesGroupColors = FALSE
    /\ lastParse = NoParse /\ alphabetFile = <<>>
    /\ PrintIdle /\ ColoursIdle /\ ParseIdle

\* lines 88-107
BuildOutput ==
    /\ apc = "start"
    /\ AlphabetUsesCharColors' = FALSE
    /\ AlphabetUsesGroupColors' = FALSE
    /\ output' = NewOutput(alphabet)
    /\ apc' = "comments"
    /\ UNCHANGED <<alphabet, groupIdx, explicitInvisible, group, lastParse, alphabetFile,
                   pvars, cvars, fvars>>

\* lines 109-113
CopyComments ==
    /\ apc = "comments"
    /\ output' = [output EXCEPT !.children = @ \o findall(alphabet, CommentTag)]
    /\ explicitInvisible' = TRUE
    /\ apc' = "groups"
    /\ UNCHANGED <<alphabet, groupIdx, group, AlphabetUsesCharColors,
                   AlphabetUsesGroupColors, lastParse, alphabetFile, pvars, cvars, fvars>>

\* lines 114-116, one iteration
ParseGroup ==
    /\ apc = "groups"
    /\ groupIdx < Len(findall(alphabet, "group"))
    /\ LET g == findall(alphabet, "group")[groupIdx + 1]
           r == parseRecursive(g, explicitInvisible, g)
       IN  /\ group' = g
           /\ output' = [output EXCEPT !.children = @ \o r.out]
           /\ AlphabetUsesCharColors' = (AlphabetUsesCharColors \/ r.usesCharColors)
           /\ AlphabetUsesGroupColors' = (AlphabetUsesGroupColors \/ r.usesGroupColors)
           /\ lastParse' = [idx |-> groupIdx + 1, explicitInvisible |-> explicitInvisible,
                            out |-> r.out, ret |-> r.ret, emitted |-> r.emitted]
    /\ explicitInvisible' = FALSE
    /\ groupIdx' = groupIdx + 1
    /\ UNCHANGED <<apc, alphabet, alphabetFile, pvars, cvars, fvars>>

\* lines 118-136
AddParagraphSpace ==
    /\ apc = "groups"
    /\ groupIdx = Len(findall(alphabet, "group"))
    /\ LET r == ParagraphSpace(getCharData(find(alphabet, "paragraph")),
                               getCharData(find(alphabet, "space")))
       IN  /\ output' = [output EXCEPT !.children = @ \o r.out]
           /\ AlphabetUsesCharColors' = (AlphabetUsesCharColors \/ r.usesCharColors)
    /\ apc' = "write"
    /\ UNCHANGED <<alphabet, groupIdx, explicitInvisible, group, AlphabetUsesGroupColors,
                   lastParse, alphabetFile, pvars, cvars, fvars>>

\* lines 139-146
WriteAlphabet ==
    /\ apc = "write"
    /\ alphabetFile' = <<alphnamePath(getAttrib(alphabet, "name", NoneStr)), output>>
    /\ apc' = "done"
    /\ UNCHANGED <<alphabet, output, groupIdx, explicitInvisible, group,
                   AlphabetUsesCharColors, AlphabetUsesGroupColors, lastParse,
                   pvars, cvars, fvars>>

AlphabetNext ==
    BuildOutput \/ CopyComments \/ ParseGroup \/ AddParagraphSpace \/ WriteAlphabet

SpecAlphabet == AlphabetInit /\ [][AlphabetNext]_vars

(***************************************************************************)
(* Properties of printColor                                                *)
(***************************************************************************)
LowerHexValue(c) ==
    CASE c = "0" -> 0 [] c = "1" -> 1 [] c = "2" -> 2 [] c = "3" -> 3
      [] c = "4" -> 4 [] c = "5" -> 5 [] c = "6" -> 6 [] c = "7" -> 7
      [] c = "8" -> 8 [] c = "9" -> 9 [] c = "a" -> 10 [] c = "b" -> 11
      [] c = "c" -> 12 [] c = "d" -> 13 [] c = "e" -> 14 [] c = "f" -> 15
      [] OTHER -> -1

\* the channels read back from "#" followed by two-digit pairs
DecodeColor(s) ==
    [c \in 1..((Len(s) - 1) \div 2) |->
        16 * LowerHexValue(s[2 * c]) + LowerHexValue(s[2 * c + 1])]

\* C5: printColor is total and round-trippable on channels 0..255: (r,g,b) and
\* (r,g,b,255) give "#" and exactly 6 lowercase hex digits, (r,g,b,a) with
\* a /= 255 gives "#" and exactly 8, each channel a zero-padded two-digit pair
\* in the order r, g, b, a, so that the channels are recovered from the string.
C5_PrintColorRoundTrip ==
    ppc = "printed" =>
        LET n == IF Len(pcolor) = 3 \/ pcolor[4] = 255 THEN 3 ELSE 4
        IN  /\ Len(pstr) = 1 + 2 * n
            /\ pstr[1] = "#"
            /\ \A k \in 2..Len(pstr) : LowerHexValue(pstr[k]) >= 0
            /\ DecodeColor(pstr) = SubSeq(pcolor, 1, n)

\* a colour with alpha has been printed whose channels need the zero padding
C5_Witness ==
    /\ ppc = "printed" /\ Len(pcolor) = 4 /\ pcolor[4] /= 255
    /\ pcolor[2] = 0 /\ pcolor[4] = 10 /\ Len(pstr) = 9

(***************************************************************************)
(* Properties of ExtractColors and of the palette loop                     *)
(***************************************************************************)
NamedColorNames == {NamedColors[k][2] : k \in DOMAIN NamedColors}

\* the hex value ExtractColors computes for entry k of NamedColors in file i
ComputedHex(i, k) ==
    printColor(parseColor(PaletteOf(files[i]).colours[NamedColors[k][1] + 1]))

LastWasDefault == lastCall.idx /= 0 /\ lastCall.idx = defaultPos
LastWasLater == lastCall.idx /= 0 /\ lastCall.idx /= defaultPos

\* C1: the default palette, processed first with an empty baseline, has every
\* entry of NamedColors as an attribute of its document; a palette processed
\* afterwards with the default palette's map as baseline has a named colour as
\* an attribute exactly when its hex value differs from the default palette's
\* value for that name, or the baseline has no value for that name.
C1_NamedColourEmission ==
    /\ LastWasDefault => NamedColorNames \subseteq DOMAIN lastCall.attrib
    /\ LastWasLater =>
         \A k \in DOMAIN NamedColors :
            LET colorName == NamedColors[k][2]
            IN  colorName \in DOMAIN lastCall.attrib
                <=> \/ colorName \notin DOMAIN defaultNamedColors
                    \/ ComputedHex(lastCall.idx, k) /= defaultNamedColors[colorName]

\* C6: the map ExtractColors returns holds the computed hex value of every
\* entry of NamedColors, emitted or suppressed, for every palette and baseline.
C6_ReturnedMapComplete ==
    (lastCall.idx /= 0 /\ lastCall.raised = NoneVal) =>
        \A k \in DOMAIN NamedColors :
            /\ NamedColors[k][2] \in DOMAIN lastCall.ret
            /\ lastCall.ret[NamedColors[k][2]] = ComputedHex(lastCall.idx, k)

\* C7: for a palette whose name is not "Default" ExtractColors runs to
\* completion and its document carries the parent reference "Default"; for
\* the palette named "Default" no such reference is recorded.
C7_ParentReference ==
    lastCall.idx /= 0 =>
        IF files[lastCall.idx].name /= Default
        THEN /\ lastCall.raised = NoneVal
             /\ "parentName" \in DOMAIN lastCall.attrib
             /\ lastCall.attrib["parentName"] = Default
        ELSE /\ lastCall.raised = NoneVal
             /\ "parentName" \notin DOMAIN lastCall.attrib

(***************************************************************************)
(* Properties of parseRecursive                                            *)
(***************************************************************************)
\* the concatenation of a sequence of sequences
RECURSIVE ConcatAll(_)
ConcatAll(seqs) ==
    IF Len(seqs) = 0 THEN <<>> ELSE seqs[1] \o ConcatAll(SubSeq(seqs, 2, Len(seqs)))

\* the display glyphs of the `s` entries of a legacy tree, in document order
RECURSIVE LegacyChars(_)
LegacyChars(e) ==
    IF e.tag = "s" THEN <<getAttrib(e, "d", NoneStr)>>
    ELSE IF e.tag = "group"
    THEN ConcatAll([k \in 1..Len(e.children) |-> LegacyChars(e.children[k])])
    ELSE <<>>

\* the labels of the character nodes of a normalized tree, in document order
RECURSIVE OutputChars(_)
OutputChars(e) ==
    IF e.tag = "node" THEN <<e.attrib["label"]>>
    ELSE IF e.tag = "group"
    THEN ConcatAll([k \in 1..Len(e.children) |-> OutputChars(e.children[k])])
    ELSE <<>>

\* some `s` at or below the legacy element carries a colour index b
RECURSIVE HasColouredChar(_)
HasColouredChar(e) ==
    IF e.tag = "s" THEN "b" \in DOMAIN e.attrib
    ELSE IF e.tag = "group"
    THEN \E k \in 1..Len(e.children) : HasColouredChar(e.children[k])
    ELSE FALSE

\* some character node at or below the normalized element has its
\* "Old Char Color" comment
RECURSIVE OutHasColouredChar(_)
OutHasColouredChar(e) ==
    IF e.tag = "node"
    THEN \E k \in 1..Len(e.children) :
            e.children[k].tag = CommentTag /\ e.children[k].text[1] = "Old Char Color: "
    ELSE IF e.tag = "group"
    THEN \E k \in 1..Len(e.children) : OutHasColouredChar(e.children[k])
    ELSE FALSE

\* every named group at or below the normalized element that has a coloured
\* character beneath it carries colorInfoName, the lowercase of its name
RECURSIVE ColourPropagated(_)
ColourPropagated(e) ==
    IF e.tag /= "group" THEN TRUE
    ELSE /\ ("name" \in DOMAIN e.attrib /\ OutHasColouredChar(e)) =>
                /\ "colorInfoName" \in DOMAIN e.attrib
                /\ e.attrib["colorInfoName"] = lowerStr(e.attrib["name"])
         /\ \A k \in 1..Len(e.children) : ColourPropagated(e.children[k])

HasOldGroupColor(e) ==
    \E k \in 1..Len(e.children) :
        e.children[k].tag = CommentTag /\ e.children[k].text[1] = "Old Group Color: "

\* a group with neither name nor label whose only child is a group or an `s`
IsWrapper(e) ==
    /\ e.tag = "group"
    /\ "name" \notin DOMAIN e.attrib /\ "label" \notin DOMAIN e.attrib
    /\ Len(e.children) = 1
    /\ e.children[1].tag \in {"group", "s"}

\* C2: for a group with neither name nor label and exactly one child that is a
\* group or an `s`, what parseRecursive appends is what it appends for that
\* child alone (the wrapper is not emitted), for a group child and for an `s`.
C2_CollapseIdempotence ==
    (fpc = "returned" /\ IsWrapper(felement)) =>
        \E flag \in BOOLEAN :
            fresult.out = parseRecursive(felement.children[1], flag, felement).out

\* C3: parseRecursive returns true exactly when some `s` at or below the
\* element carries a colour index, so that every named group with a coloured
\* character anywhere beneath it is emitted with its colorInfoName.
C3_ReturnsHasColour ==
    fpc = "returned" =>
        /\ fresult.ret = HasColouredChar(felement)
        /\ \A k \in 1..Len(fresult.out) : ColourPropagated(fresult.out[k])

\* C10: the character nodes of the output, in document order, are the `s`
\* entries of the legacy tree in document order, with the same glyphs: none
\* is dropped, duplicated or reordered, whatever is collapsed.
C10_CharacterConservation ==
    fpc = "returned" =>
        ConcatAll([k \in 1..Len(fresult.out) |-> OutputChars(fresult.out[k])])
            = LegacyChars(felement)

\* a group holding an invisible wrapper around the coloured character was
\* converted: the wrapper is gone and the character stands in the group itself
C10_Witness ==
    /\ fpc = "returned"
    /\ felement.tag = "group"
    /\ felement.children = <<Element("group", ("visible" :> no), <<sColoured>>)>>
    /\ Len(fresult.out) = 1
    /\ fresult.out[1].children[1].tag = "node"
    /\ OutputChars(fresult.out[1]) = << <<"B">> >>

(***************************************************************************)
(* Properties of the top-level assembly                                    *)
(***************************************************************************)
\* the conversion modes as the table is specified, by index 0..4
SpecifiedModes ==
    << <<"n", "o", "n", "e">>,
       <<"n", "o", "n", "e">>,
       <<"m", "a", "n", "d", "a", "r", "i", "n">>,
       <<"r", "o", "u", "t", "i", "n", "g", "C", "o", "n", "t", "e", "x", "t",
         "I", "n", "s", "e", "n", "s", "i", "t", "i", "v", "e">>,
       <<"r", "o", "u", "t", "i", "n", "g", "C", "o", "n", "t", "e", "x", "t",
         "S", "e", "n", "s", "i", "t", "i", "v", "e">> >>

\* the id of the document's <conversionmode>, NoneStr without element or id
LegacyModeId == getAttrib(find(alphabet, "conversionmode"), "id", NoneStr)

\* C4: conversionMode2str maps 0 and 1 to "none", 2 to "mandarin", 3 to
\* "routingContextInsensitive" and 4 to "routingContextSensitive"; the output
\* carries conversionMode with that value exactly when the legacy document has
\* a conversionmode element with an id.
C4_ConversionMode ==
    apc \in {"comments", "groups", "paragraph", "write", "done"} =>
        IF LegacyModeId = NoneStr
        THEN "conversionMode" \notin DOMAIN output.attrib
        ELSE /\ "conversionMode" \in DOMAIN output.attrib
             /\ output.attrib["conversionMode"] = SpecifiedModes[int(LegacyModeId) + 1]

\* the groups appended after the comments and the converted top-level groups
SynthesizedGroups ==
    LET groups == findall(alphabet, "group")
        before == Len(findall(alphabet, CommentTag))
                  + Len(ConcatAll([i \in 1..Len(groups) |->
                                    parseRecursive(groups[i], i = 1, groups[i]).out]))
    IN  SubSeq(output.children, before + 1, Len(output.children))

KnownGroupNames == {knownGroups[k].name : k \in DOMAIN knownGroups}

\* C9: exactly one group is synthesized when a paragraph and/or space entry
\* exists and none otherwise: paragraphSpace (paragraph, then space) for both,
\* paragraph or space for one; its colorInfoName equals its name and names one
\* of the colour groups of knownGroups.
C9_ParagraphSpaceGroup ==
    apc \in {"write", "done"} =>
        LET hasParagraph == find(alphabet, "paragraph").tag /= NoneVal
            hasSpace     == find(alphabet, "space").tag /= NoneVal
            synth        == SynthesizedGroups
        IN  IF ~hasParagraph /\ ~hasSpace THEN synth = <<>>
            ELSE /\ Len(synth) = 1
                 /\ synth[1].tag = "group"
                 /\ synth[1].attrib["name"] =
                        (IF hasParagraph /\ hasSpace THEN "paragraphSpace"
                         ELSE IF hasParagraph THEN "paragraph" ELSE "space")
                 /\ OutputChars(synth[1]) =
                        (IF hasParagraph THEN <<find(alphabet, "paragraph").attrib["d"]>>
                         ELSE <<>>)
                        \o (IF hasSpace THEN <<find(alphabet, "space").attrib["d"]>>
                            ELSE <<>>)
                 /\ synth[1].attrib["colorInfoName"] = synth[1].attrib["name"]
                 /\ synth[1].attrib["colorInfoName"] \in KnownGroupNames

\* the top-level group of the last call of parseRecursive, when that call
\* emitted it and it has a colour index and its own visible attribute is not "no"
LastGroup == findall(alphabet, "group")[lastParse.idx]

LastEmittedColoured ==
    /\ lastParse.idx /= 0 /\ lastParse.emitted
    /\ "b" \in DOMAIN LastGroup.attrib
    /\ getAttrib(LastGroup, "visible", yes) /= no

\* the emitted group got the colour treatment of lines 66-69
ColourTreated(e, legacy) ==
    /\ HasOldGroupColor(e)
    /\ "name" \in DOMAIN legacy.attrib =>
          /\ "colorInfoName" \in DOMAIN e.attrib
          /\ e.attrib["colorInfoName"] = lowerStr(legacy.attrib["name"])
    /\ AlphabetUsesGroupColors

\* C8 as stated: explicitInvisible does not touch the colour logic of an
\* emitted group: with a colour index and its own visible attribute not "no"
\* it gets the "Old Group Color" comment (and colorInfoName when named) and
\* the document is marked as using group colours, for explicitInvisible true
\* as for false; the first top-level group is treated like the later ones.
C8_FlagOnlyAffectsCollapse ==
    LastEmittedColoured => ColourTreated(lastParse.out[1], LastGroup)

\* C8 amended: explicitInvisible overrides the visibility used by the colour
\* logic too: such a group gets the "Old Group Color" comment exactly when
\* explicitInvisible is false, and then also colorInfoName when named and the
\* document's mark; the first top-level group never gets the comment.
C8_FlagAlsoSuppressesColour ==
    /\ LastEmittedColoured =>
          /\ HasOldGroupColor(lastParse.out[1]) <=> ~lastParse.explicitInvisible
          /\ ~lastParse.explicitInvisible => ColourTreated(lastParse.out[1], LastGroup)
    /\ lastParse.idx /= 0 => (lastParse.explicitInvisible <=> lastParse.idx = 1)
    /\ (lastParse.idx = 1 /\ lastParse.emitted) => ~HasOldGroupColor(lastParse.out[1])

\* the same coloured, visible, named group stood first and second in the
\* document: the first was emitted without the comment, the second with it
C8_Witness ==
    /\ lastParse.idx = 2 /\ LastEmittedColoured
    /\ findall(alphabet, "group")[1] = LastGroup
    /\ "name" \in DOMAIN LastGroup.attrib
    /\ HasOldGroupColor(lastParse.out[1])
    /\ LET first == output.children[Len(output.children) - 1]
       IN  first.tag = "group" /\ ~HasOldGroupColor(first)

=============================================================================
